---- MODULE Spec2Model ----
(***************************************************************************)
(* Client-device layer of the Surface System Aggregator Module (SSAM):    *)
(* the device bus (bus.c), the KIP hot-plug hub and its child-device      *)
(* enumeration (surface_aggregator_registry.c).                           *)
(*                                                                         *)
(* Device 0 is the hub device (a direct child of the controller); devices *)
(* 1..MaxTemplates are the devices instantiated from the hub's child      *)
(* node templates.                                                         *)
(***************************************************************************)
EXTENDS Integers, Sequences, FiniteSets, TLC

\* ---- bounds -------------------------------------------------------------
MaxTemplates == 2   \* number of child node templates below the hub
MaxEvents == 1      \* events in flight between the EC and the notifier

\* ---- program constants --------------------------------------------------
ENXIO == 6
ENOMEM == 12
EEXIST == 17
EINVAL == 22
EIO == 5
SSAM_EVENT_KIP_CID_CONNECTION == 44
\* msecs_to_jiffies(250), counted in ticks of 125 ms
SSAM_KIP_UPDATE_CONNECT_DELAY == 2

VARIABLES
    ctrlState,    \* ssam_controller.state
    lockWriter,   \* controller state lock held exclusively (ssam_controller_lock)
    lockReaders,  \* number of holders of ssam_controller_statelock
    ctrlRefs,     \* controller references taken by ssam_device_alloc
    sdpc,         \* position of the controller shutdown path
    hubNodes,     \* names of the child nodes of the hub's firmware node
    sdev,         \* the ssam devices: lifecycle status, parent, uid
    hubpc,        \* position of the hub device / hub driver lifecycle
    remover,      \* who runs the hub teardown: "client", "shutdown", "probe"
    hubState,     \* ssam_kip_hub.state ("none": no hub structure allocated)
    notifReg,     \* hub->notif is registered
    pending,      \* queued instances of hub->update_work
    schedRet,     \* what the last schedule_delayed_work returned
    timer,        \* ticks until the queued update_work may run
    running,      \* executing instances of ssam_kip_hub_update_workfn
    wk,           \* locals of the executing ssam_kip_hub_update_workfn
    physConn,     \* actual connection state reported by the EC
    events,       \* events in flight to the hub notifier
    connectAge,   \* ticks since a childless hub got a connect notification,
                  \* -1 once the connect delay has elapsed
    addObs,       \* what the last call of ssam_device_add saw and returned
    nf,           \* the event notifier list and the dispatch in progress
    bdrv,         \* bus: the client driver (registered, match table)
    bdev,         \* bus: the client devices below one parent, with their binding
    benum,        \* bus: the enumeration (ssam_hub_register_clients) in progress
    bobs,         \* bus: what the last ssam_device_add found and returned
    mobs,         \* bus: arguments and result of the last ssam_device_id_match
    xf,           \* the HID descriptor transfer (vhf_get_hid_descriptor) and its remote
    vhf,          \* the HID peripheral: sid_vhf.state, raw requests, inbound events
    up            \* a call of ssam_uid_from_string: string, output UID, result

\* the variables of the hub and controller model
hubModelVars == <<ctrlState, lockWriter, lockReaders, ctrlRefs, sdpc, hubNodes, sdev,
                  hubpc, remover, hubState, notifReg, pending, timer, schedRet,
                  running, wk, physConn, events, connectAge, addObs>>

\* the variables of the notifier and of the bus model
auxVars == <<nf, bdrv, bdev, benum, bobs, mobs, xf, vhf, up>>

vars == <<hubModelVars, auxVars>>

\* ---- device names and ssam_uid_from_string ------------------------------

\* "ssam:01:15:02:01:00"
ssam_node_hid_kip_keyboard ==
    <<"s","s","a","m",":","0","1",":","1","5",":","0","2",":","0","1",":","0","0">>
\* "ssam:01:15:02:02:00"
ssam_node_hid_kip_penstash ==
    <<"s","s","a","m",":","0","1",":","1","5",":","0","2",":","0","2",":","0","0">>
\* "ssam:01:15:02:03:00"
ssam_node_hid_kip_touchpad ==
    <<"s","s","a","m",":","0","1",":","1","5",":","0","2",":","0","3",":","0","0">>
\* "ssam:01:15:02:05:00"
ssam_node_hid_kip_iid5 ==
    <<"s","s","a","m",":","0","1",":","1","5",":","0","2",":","0","5",":","0","0">>
\* "ssam:01:0e:01:00:00"
ssam_node_hub_kip ==
    <<"s","s","a","m",":","0","1",":","0","e",":","0","1",":","0","0",":","0","0">>
\* "ssam_platform_hub": a node that names no SSAM device
ssam_node_root ==
    <<"s","s","a","m","_","p","l","a","t","f","o","r","m","_","h","u","b">>

HexDigits == <<"0","1","2","3","4","5","6","7","8","9","a","b","c","d","e","f">>

isxdigit(c) == c \in {"0","1","2","3","4","5","6","7","8","9",
                      "a","b","c","d","e","f","A","B","C","D","E","F"}

isspace(c) == c \in {" ", "\t", "\n"}

tolower(c) ==
    CASE c = "A" -> "a" [] c = "B" -> "b" [] c = "C" -> "c"
      [] c = "D" -> "d" [] c = "E" -> "e" [] c = "F" -> "f"
      [] c = "X" -> "x" [] OTHER -> c

hex_to_bin(c) == CHOOSE v \in 0..15 : HexDigits[v + 1] = tolower(c)

RECURSIVE skip_spaces(_, _)
skip_spaces(s, pos) ==
    IF pos <= Len(s) /\ isspace(s[pos]) THEN skip_spaces(s, pos + 1) ELSE pos

\* the digits of a %hhx conversion; the value is stored into a u8
RECURSIVE simple_strtoull(_, _, _)
simple_strtoull(s, pos, acc) ==
    IF pos <= Len(s) /\ isxdigit(s[pos])
    THEN simple_strtoull(s, pos + 1, (acc * 16 + hex_to_bin(s[pos])) % 256)
    ELSE [val |-> acc, next |-> pos]

\* one %hhx conversion of vsscanf at position pos
scan_hhx(s, pos) ==
    LET p == skip_spaces(s, pos) IN
    IF p > Len(s) \/ ~isxdigit(s[p])
    THEN [ok |-> FALSE, val |-> 0, next |-> p]
    ELSE LET q == IF s[p] = "0" /\ p + 1 <= Len(s) /\ tolower(s[p + 1]) = "x"
                  THEN p + 2 ELSE p
             r == simple_strtoull(s, q, 0)
         IN [ok |-> TRUE, val |-> r.val, next |-> r.next]

\* the five ":"-separated conversions after the prefix; the result is the
\* sequence of the values assigned
RECURSIVE scan_fields(_, _, _, _)
scan_fields(s, pos, k, acc) ==
    IF k > 5 THEN acc
    ELSE LET litok == k = 1 \/ (pos <= Len(s) /\ s[pos] = ":")
             p == IF k = 1 THEN pos ELSE pos + 1
         IN IF ~litok THEN acc
            ELSE LET f == scan_hhx(s, p) IN
                 IF ~f.ok THEN acc
                 ELSE scan_fields(s, f.next, k + 1, Append(acc, f.val))

\* sscanf(str, "ssam:%hhx:%hhx:%hhx:%hhx:%hhx", ...)
sscanf_ssam(s) ==
    IF Len(s) >= 5 /\ SubSeq(s, 1, 5) = <<"s","s","a","m",":">>
    THEN scan_fields(s, 6, 1, <<>>)
    ELSE <<>>

NoUid == [domain |-> 0, category |-> 0, target |-> 0, instance |-> 0, function |-> 0]

ssam_uid_from_string(str, uid) ==
    LET f == sscanf_ssam(str) IN
    IF Len(f) # 5
    THEN [status |-> -EINVAL, uid |-> uid]
    ELSE [status |-> 0,
          uid |-> [domain |-> f[1], category |-> f[2], target |-> f[3],
                   instance |-> f[4], function |-> f[5]]]

\* ---- the devices --------------------------------------------------------

HubDev == 0
Templates == 1..MaxTemplates
Devs == {HubDev} \cup Templates

NoDev == [st |-> "none", parent |-> "none", uid |-> NoUid, seen |-> "none"]

\* the child nodes of the hub's firmware node, in enumeration order
NodesSp8 == <<ssam_node_hid_kip_keyboard, ssam_node_hid_kip_penstash,
              ssam_node_hid_kip_touchpad, ssam_node_hid_kip_iid5>>
NodesMixed == <<ssam_node_hid_kip_keyboard, ssam_node_root,
                ssam_node_hid_kip_touchpad, ssam_node_hid_kip_iid5>>

Forests == {[i \in Templates |-> NodesSp8[((i - 1) % 4) + 1]],
            [i \in Templates |-> NodesMixed[((i - 1) % 4) + 1]]}

RegisteredIn(sd) == {d \in Devs : sd[d].st = "registered"}
Registered == RegisteredIn(sdev)
Allocated == {d \in Devs : sdev[d].st # "none"}
HubChildren == {d \in Templates : sdev[d].st = "registered" /\ sdev[d].parent = "hub"}

\* ---- bus.c ---------------------------------------------------------------

ssam_controller_get(refs) == refs + 1

ssam_controller_put(refs) == refs - 1

\* ssam_device_release: drops the controller reference of the device
ssam_device_release_leak(refs) == refs
ssam_device_release(refs) == ssam_controller_put(refs)

\* ssam_device_alloc: the device structure; the caller accounts the reference
ssam_device_alloc(uid) ==
    [st |-> "allocated", parent |-> "ctrl", uid |-> uid, seen |-> "none"]

\* ssam_controller_statelock can be taken (no exclusive holder)
statelock_free_nolock == TRUE
statelock_free == ~lockWriter

\* the state check of ssam_device_add
ssam_device_add_check_any(state) == 0
ssam_device_add_check(state) == IF state # "STARTED" THEN -ENXIO ELSE 0

\* device_add: fails when the driver core rejects the device
device_add(ok) == IF ok THEN 0 ELSE -EEXIST

Observe(d, seen, ret, before, after) ==
    [called |-> TRUE, dev |-> d, seen |-> seen, ret |-> ret,
     changed |-> before # after, visible |-> d \in after]

\* ssam_remove_device for every child of parent p
remove_children(p) ==
    [d \in Devs |-> IF sdev[d].st = "registered" /\ sdev[d].parent = p
                    THEN NoDev ELSE sdev[d]]

RECURSIVE release_n(_, _)
release_n(refs, n) == IF n = 0 THEN refs ELSE release_n(ssam_device_release(refs), n - 1)

\* ---- delayed work (hub->update_work) -------------------------------------

\* schedule_delayed_work: queues the work unless it is already pending
schedule_delayed_work_unless_running(delay) ==
    IF pending > 0 \/ running > 0
    THEN /\ schedRet' = "pending"
         /\ UNCHANGED <<pending, timer>>
    ELSE /\ pending' = 1
         /\ timer' = delay
         /\ schedRet' = "queued"
schedule_delayed_work_always(delay) ==
    /\ pending' = pending + 1
    /\ timer' = delay
    /\ schedRet' = "queued"
schedule_delayed_work(delay) ==
    IF pending > 0
    THEN /\ schedRet' = "pending"
         /\ UNCHANGED <<pending, timer>>
    ELSE /\ pending' = 1
         /\ timer' = delay
         /\ schedRet' = "queued"

\* ---- initial state -------------------------------------------------------

\* (rolled: the last enumeration of this hub failed and was rolled back, and
\* the hub has not become Disconnected since)
IdleWork ==
    [pc |-> "idle", status |-> 0, state |-> "none", idx |-> 0, last |-> "none",
     rolled |-> FALSE]

NoObs == [called |-> FALSE, dev |-> 0, seen |-> "none", ret |-> 0,
          changed |-> FALSE, visible |-> FALSE]

\* ---- event notifiers: the registered blocks ---------------------------------

\* largest priority value a client notifier other than the hub's registers with
MaxPriority == 2
INT_MAX == 2147483647

\* hub->notif as ssam_kip_hub_probe fills it in
hub_notif == [id |-> "kip_hub", priority |-> INT_MAX, tc |-> "KIP"]

\* vhf->notif as surface_sam_sid_vhf_probe fills it in
vhf_notif == [id |-> "sid_vhf", priority |-> 1, tc |-> "HID"]

\* the notifier of any other client listening to the hub's target category
client_notif(p) == [id |-> "kip_client", priority |-> p, tc |-> "KIP"]

\* no notifier registered, no event being dispatched
NfIdle == [list |-> <<>>, event |-> "none", pos |-> 0, log |-> <<>>]

\* ---- the client bus: types, match tables, devices ---------------------------

\* type tags 1..MaxTag, 0 is the all-zero tag (guid_null)
MaxTag == 2
\* entries of a match table in front of its terminating entry
MaxTable == 3

guid_null == 0
Tags == 1..MaxTag

\* a match table: entries with a type, closed by the all-zero entry
MatchTables == {t \o <<guid_null>> : t \in UNION {[1..n -> Tags] : n \in 0..MaxTable}}

\* the match table of a driver for the devices of one type
DriverTable(type) == <<type, guid_null>>

\* the match tables of the drivers that register: for one type, for every type
DriverTables ==
    {DriverTable(t) : t \in Tags} \cup {[i \in 1..MaxTag |-> i] \o <<guid_null>>}

\* the client devices of the enumerated parent, one per child node
BusDevs == Templates

\* the descriptions the enumeration walks over: one type per child node
BusNodes == [BusDevs -> Tags \cup {guid_null}]

NoBusDev == [st |-> "none", type |-> guid_null, drv |-> "none", need |-> 0,
             probes |-> 0, pfail |-> FALSE, eager |-> FALSE]
NoDriver == [registered |-> FALSE, match_table |-> <<guid_null>>]
NoEnum == [pc |-> "idle", idx |-> 0, status |-> 0, nodes |-> <<>>]
NoBusObs == [called |-> FALSE, dev |-> 0, type |-> guid_null, seen |-> "none",
             dup |-> FALSE, ret |-> 0, kept |-> FALSE]
NoMatchObs == [called |-> FALSE, table |-> <<guid_null>>, guid |-> guid_null, ret |-> 0]

\* ---- the HID descriptor transfer: remote, buffers ------------------------------

\* declared descriptor lengths followed with every remote behaviour
MaxLen == 4
\* chunk sizes followed with every remote behaviour
MaxChunk == 3
\* a descriptor longer than two chunks of the driver's chunk size
ExampleLen == 300
\* sizeof(resp.data.pld), the length every read request starts with
VHF_PLD_LEN == 118
\* read requests counted (the count saturates)
MaxReq == MaxLen + 2

\* byte i (from 0) of the descriptor the remote holds; never zero, so that it
\* differs from the zeroes of kzalloc
desc_byte(i) == ((i * 7) % 255) + 1

min(a, b) == IF a < b THEN a ELSE b

\* a transfer: declared length, chunk size, and whether the remote always
\* answers with the bytes asked for ("good") or with anything ("any")
XfConfigs ==
    [L : 0..MaxLen, cap : 1..MaxChunk, remote : {"good", "any"}]
    \cup {[L |-> ExampleLen, cap |-> VHF_PLD_LEN, remote |-> "good"]}

\* the caller's *desc before vhf_get_hid_descriptor stores to it (*size: -1)
NoDesc == [stored |-> FALSE, null |-> FALSE, data |-> <<>>]

\* vhf_get_hid_descriptor entered: resp = {}, nothing requested yet
XfStart(c) ==
    [pc |-> "info", L |-> c.L, cap |-> c.cap, remote |-> c.remote,
     len |-> 0, buf |-> <<>>, null |-> FALSE, alloc |-> FALSE, freed |-> FALSE,
     offset |-> 0, length |-> 0, end |-> 0, status |-> 0,
     desc |-> NoDesc, size |-> -1, ret |-> 0, parsed |-> FALSE,
     nreq |-> 0, failed |-> 0, concat |-> <<>>, written |-> {},
     early |-> FALSE, full |-> TRUE, last |-> 0, overflow |-> FALSE]

XfIdle == [XfStart([L |-> 0, cap |-> 1, remote |-> "good"]) EXCEPT !.pc = "idle"]

\* the notifier, the bus and the transfer model at rest
\* ---- the HID peripheral: data ------------------------------------------------

MaxReport == 12
SAM_EVENT_SID_VHF_TC == 21
SSAM_SSH_TC_HID == 21
VHF_HID_STARTED == 0

ReportNums == 0..MaxReport
ReportTypes == {"HID_INPUT_REPORT", "HID_OUTPUT_REPORT", "HID_FEATURE_REPORT"}
RequestTypes == {"HID_REQ_GET_REPORT", "HID_REQ_SET_REPORT", "HID_REQ_SET_IDLE"}

\* the inbound events: the HID category and another one, the HID channel and
\* another one, two instance ids, the three input command ids and two others
HidEvents ==
    [target_category : {SSAM_SSH_TC_HID, 14}, channel : {1, 2},
     instance_id : {0, 1}, command_id : 0..4]

NoHidEvent == [target_category |-> 0, channel |-> 0, instance_id |-> 0, command_id |-> 0]

\* no call of sid_vhf_hid_raw_request yet
NoRawRequest ==
    [called |-> FALSE, reportnum |-> 0, len |-> 0, rtype |-> "none",
     reqtype |-> "none", sent |-> <<>>, ret |-> 0]

\* no call of sid_vhf_event_handler yet
NoEventObs ==
    [called |-> FALSE, event |-> NoHidEvent, started |-> FALSE,
     forwarded |-> FALSE, started_at_report |-> FALSE, handled |-> FALSE,
     status |-> 0]

\* the peripheral after probe: the consumer has not opened the device
VhfProbed(instance) ==
    [state |-> {}, instance |-> instance, epc |-> "idle", event |-> NoHidEvent,
     rq |-> NoRawRequest, eobs |-> NoEventObs]

VhfIdle == VhfProbed(0)

\* ---- ssam_uid_from_string: data ----------------------------------------------

NoParse == [pc |-> "idle", str |-> <<>>, uid |-> NoUid, before |-> NoUid, status |-> 0]

InitNf == nf = NfIdle
InitBus ==
    /\ bdrv = NoDriver
    /\ bdev = [d \in BusDevs |-> NoBusDev]
    /\ benum = NoEnum
    /\ bobs = NoBusObs
    /\ mobs = NoMatchObs
InitXf == xf = XfIdle
InitVhf == vhf = VhfIdle
InitUp == up = NoParse
InitAux == InitNf /\ InitBus /\ InitXf /\ InitVhf /\ InitUp

InitHub ==
    /\ ctrlState = "INITIALIZED"
    /\ lockWriter = FALSE
    /\ lockReaders = 0
    /\ ctrlRefs = 0
    /\ sdpc = "idle"
    /\ hubNodes \in Forests
    /\ sdev = [d \in Devs |-> NoDev]
    /\ hubpc = "absent"
    /\ remover = "none"
    /\ hubState = "none"
    /\ notifReg = FALSE
    /\ pending = 0
    /\ timer = 0
    /\ schedRet = "none"
    /\ running = 0
    /\ wk = IdleWork
    /\ physConn \in BOOLEAN
    /\ events = <<>>
    /\ connectAge = -1
    /\ addObs = NoObs

Init == InitHub /\ InitAux

\* the hub and controller model at rest, for the models that do not use it
InitHubRest ==
    /\ InitHub
    /\ hubNodes = [i \in Templates |-> NodesSp8[((i - 1) % 4) + 1]]
    /\ physConn = FALSE

\* ---- the controller ------------------------------------------------------

hubVars == <<hubpc, remover, hubState, notifReg, pending, timer, schedRet, running, wk>>
envVars == <<physConn, events, connectAge>>
devVars == <<ctrlRefs, sdev, addObs>>
ctrlVars == <<ctrlState, lockWriter, lockReaders, sdpc>>

\* the controller is started
ControllerStart ==
    /\ ctrlState = "INITIALIZED"
    /\ ctrlState' = "STARTED"
    /\ UNCHANGED <<lockWriter, lockReaders, sdpc, hubNodes>>
    /\ UNCHANGED devVars /\ UNCHANGED hubVars /\ UNCHANGED envVars
    /\ UNCHANGED auxVars

\* shutdown: ssam_controller_lock
ShutdownLock ==
    /\ sdpc = "idle"
    /\ ctrlState = "STARTED"
    /\ ~lockWriter /\ lockReaders = 0
    /\ lockWriter' = TRUE
    /\ sdpc' = "remove"
    /\ UNCHANGED <<ctrlState, lockReaders, hubNodes>>
    /\ UNCHANGED devVars /\ UNCHANGED hubVars /\ UNCHANGED envVars
    /\ UNCHANGED auxVars

\* ssam_device_remove of the hub device: device_unregister unbinds a bound
\* driver (ssam_kip_hub_remove) and then deletes the device
ssam_device_remove_hub(who) ==
    IF hubpc = "bound"
    THEN /\ hubpc' = "rm_unreg"
         /\ remover' = who
         /\ UNCHANGED <<sdev, ctrlRefs>>
    ELSE /\ hubpc' = "absent"
         /\ remover' = "none"
         /\ sdev' = [sdev EXCEPT ![HubDev] = NoDev]
         /\ ctrlRefs' = ssam_device_release(ctrlRefs)

\* shutdown: ssam_controller_remove_clients, with the lock held
ssam_controller_remove_clients_skip ==
    /\ sdpc = "remove"
    /\ sdpc' = "deinit"
    /\ UNCHANGED <<ctrlState, lockWriter, lockReaders, hubNodes>>
    /\ UNCHANGED devVars /\ UNCHANGED hubVars /\ UNCHANGED envVars
    /\ UNCHANGED auxVars
ssam_controller_remove_clients ==
    /\ sdpc = "remove"
    /\ \/ /\ sdev[HubDev].st = "registered" /\ sdev[HubDev].parent = "ctrl"
          /\ hubpc \in {"registered", "inert", "bound"}
          /\ ssam_device_remove_hub("shutdown")
          /\ UNCHANGED sdpc
       \/ /\ sdev[HubDev].st # "registered"
          /\ sdpc' = "deinit"
          /\ UNCHANGED <<hubpc, remover, sdev, ctrlRefs>>
    /\ UNCHANGED <<ctrlState, lockWriter, lockReaders, hubNodes, addObs>>
    /\ UNCHANGED <<hubState, notifReg, pending, timer, schedRet, running, wk>>
    /\ UNCHANGED envVars
    /\ UNCHANGED auxVars

\* shutdown: the controller leaves the started state, ssam_controller_unlock
ShutdownFinish ==
    /\ sdpc = "deinit"
    /\ ctrlState' = "STOPPED"
    /\ lockWriter' = FALSE
    /\ sdpc' = "done"
    /\ UNCHANGED <<lockReaders, hubNodes>>
    /\ UNCHANGED devVars /\ UNCHANGED hubVars /\ UNCHANGED envVars
    /\ UNCHANGED auxVars

\* ---- the hub device and the hub driver -----------------------------------

\* ssam_hub_add_device for the hub node, up to the state check of
\* ssam_device_add: on -ENXIO the device is put again
ClientAddHub ==
    /\ hubpc = "absent"
    /\ LET r == ssam_uid_from_string(ssam_node_hub_kip, NoUid)
           status == ssam_device_add_check(ctrlState)
       IN /\ r.status = 0
          /\ statelock_free
          /\ IF status # 0
             THEN /\ ctrlRefs' = ssam_device_release(ssam_controller_get(ctrlRefs))
                  /\ UNCHANGED <<sdev, hubpc, lockReaders>>
                  /\ addObs' = Observe(HubDev, ctrlState, status,
                                       Registered, RegisteredIn(sdev'))
             ELSE /\ ctrlRefs' = ssam_controller_get(ctrlRefs)
                  /\ sdev' = [sdev EXCEPT ![HubDev] =
                                 [ssam_device_alloc(r.uid) EXCEPT !.seen = ctrlState]]
                  /\ lockReaders' = lockReaders + 1
                  /\ hubpc' = "adding"
                  /\ UNCHANGED addObs
    /\ UNCHANGED <<ctrlState, lockWriter, sdpc, hubNodes>>
    /\ UNCHANGED <<remover, hubState, notifReg, pending, timer, schedRet, running, wk>>
    /\ UNCHANGED envVars
    /\ UNCHANGED auxVars

\* ssam_device_add of the hub device: device_add and unlock
ClientDevAdd ==
    /\ hubpc = "adding"
    /\ \E ok \in BOOLEAN :
         LET status == device_add(ok) IN
         /\ IF status = 0
            THEN /\ sdev' = [sdev EXCEPT ![HubDev].st = "registered"]
                 /\ hubpc' = "registered"
                 /\ UNCHANGED ctrlRefs
            ELSE /\ sdev' = [sdev EXCEPT ![HubDev] = NoDev]
                 /\ hubpc' = "absent"
                 /\ ctrlRefs' = ssam_device_release(ctrlRefs)
         /\ addObs' = Observe(HubDev, sdev[HubDev].seen, status,
                              Registered, RegisteredIn(sdev'))
    /\ lockReaders' = lockReaders - 1
    /\ UNCHANGED <<ctrlState, lockWriter, sdpc, hubNodes>>
    /\ UNCHANGED <<remover, hubState, notifReg, pending, timer, schedRet, running, wk>>
    /\ UNCHANGED envVars
    /\ UNCHANGED auxVars

\* ssam_device_remove of the hub device by its owner
ClientRemoveHub ==
    /\ hubpc \in {"registered", "inert", "bound"}
    /\ ssam_device_remove_hub("client")
    /\ UNCHANGED ctrlVars
    /\ UNCHANGED <<hubNodes, addObs>>
    /\ UNCHANGED <<hubState, notifReg, pending, timer, schedRet, running, wk>>
    /\ UNCHANGED envVars
    /\ UNCHANGED auxVars

\* ssam_kip_hub_probe up to ssam_device_notifier_register
ssam_kip_hub_probe ==
    /\ hubpc = "registered"
    /\ \E ok \in BOOLEAN :
         IF ok
         THEN /\ hubState' = "UNINITIALIZED"
              /\ notifReg' = TRUE
              /\ hubpc' = "probing"
              /\ wk' = IdleWork
         ELSE /\ hubpc' = "inert"
              /\ UNCHANGED <<hubState, notifReg, wk>>
    /\ UNCHANGED ctrlVars /\ UNCHANGED devVars /\ UNCHANGED envVars
    /\ UNCHANGED <<hubNodes, remover, pending, timer, schedRet, running>>
    /\ UNCHANGED auxVars

\* ssam_kip_hub_probe from sysfs_create_group on: the initial scheduling of
\* the update work, or the error path
ssam_kip_hub_probe_finish ==
    /\ hubpc = "probing"
    /\ \E ok \in BOOLEAN :
         IF ok
         THEN /\ schedule_delayed_work(0)
              /\ hubpc' = "bound"
              /\ UNCHANGED remover
         ELSE /\ hubpc' = "rm_unreg"
              /\ remover' = "probe"
              /\ UNCHANGED <<pending, timer, schedRet>>
    /\ UNCHANGED ctrlVars /\ UNCHANGED devVars /\ UNCHANGED envVars
    /\ UNCHANGED <<hubNodes, hubState, notifReg, running, wk>>
    /\ UNCHANGED auxVars

\* ssam_kip_hub_remove: ssam_device_notifier_unregister
ssam_kip_hub_remove_unregister ==
    /\ hubpc = "rm_unreg"
    /\ notifReg' = FALSE
    /\ events' = <<>>
    /\ connectAge' = -1
    /\ hubpc' = "rm_cancel"
    /\ UNCHANGED ctrlVars /\ UNCHANGED devVars
    /\ UNCHANGED <<hubNodes, remover, hubState, pending, timer, schedRet, running, wk>>
    /\ UNCHANGED physConn
    /\ UNCHANGED auxVars

\* cancel_delayed_work_sync: a pending work is taken off the queue
ssam_kip_hub_remove_cancel ==
    /\ hubpc = "rm_cancel"
    /\ pending' = 0
    /\ timer' = 0
    /\ schedRet' = "none"
    /\ hubpc' = "rm_wait"
    /\ UNCHANGED ctrlVars /\ UNCHANGED devVars /\ UNCHANGED envVars
    /\ UNCHANGED <<hubNodes, remover, hubState, notifReg, running, wk>>
    /\ UNCHANGED auxVars

\* cancel_delayed_work_sync: wait for an executing work to finish
work_flushed_nowait == TRUE
work_flushed == running = 0

ssam_kip_hub_remove_sync ==
    /\ hubpc = "rm_wait"
    /\ work_flushed
    /\ hubpc' = "rm_clients"
    /\ UNCHANGED ctrlVars /\ UNCHANGED devVars /\ UNCHANGED envVars
    /\ UNCHANGED <<hubNodes, remover, hubState, notifReg, pending, timer, schedRet, running, wk>>
    /\ UNCHANGED auxVars

\* ssam_remove_clients(&sdev->dev): every child of the hub is removed
ssam_remove_clients ==
    /\ sdev' = remove_children("hub")
    /\ ctrlRefs' = release_n(ctrlRefs, Cardinality(HubChildren))

\* ssam_kip_hub_remove: ssam_remove_clients; the error path of the probe
\* ends here and leaves the device without driver
ssam_kip_hub_remove_clients ==
    /\ hubpc = "rm_clients"
    /\ ssam_remove_clients
    /\ IF remover = "probe"
       THEN /\ hubpc' = "inert"
            /\ hubState' = "none"
            /\ remover' = "none"
       ELSE /\ hubpc' = "rm_del"
            /\ UNCHANGED <<hubState, remover>>
    /\ UNCHANGED ctrlVars /\ UNCHANGED envVars
    /\ UNCHANGED <<hubNodes, addObs, notifReg, pending, timer, schedRet, running, wk>>
    /\ UNCHANGED auxVars

\* device_unregister of the hub device after its driver was unbound
HubDeviceDel ==
    /\ hubpc = "rm_del"
    /\ sdev' = [sdev EXCEPT ![HubDev] = NoDev]
    /\ ctrlRefs' = ssam_device_release(ctrlRefs)
    /\ hubState' = "none"
    /\ hubpc' = "absent"
    /\ remover' = "none"
    /\ UNCHANGED ctrlVars /\ UNCHANGED envVars
    /\ UNCHANGED <<hubNodes, addObs, notifReg, pending, timer, schedRet, running, wk>>
    /\ UNCHANGED auxVars

\* ---- ssam_kip_hub_update_workfn ------------------------------------------

\* the workqueue never runs one work item on two workers at a time
work_may_start_reentrant == TRUE
work_may_start == running = 0

\* the workqueue starts the pending update work once its timer has expired
WorkStart ==
    /\ pending > 0 /\ timer = 0
    /\ work_may_start
    /\ pending' = pending - 1
    /\ running' = running + 1
    /\ wk' = [IdleWork EXCEPT !.pc = "query", !.rolled = wk.rolled]
    /\ schedRet' = "none"
    /\ UNCHANGED ctrlVars /\ UNCHANGED devVars /\ UNCHANGED envVars
    /\ UNCHANGED <<hubNodes, hubpc, remover, hubState, notifReg, timer>>
    /\ UNCHANGED auxVars

\* the work function returns
WorkReturn(outcome) ==
    /\ running' = running - 1
    /\ wk' = [IdleWork EXCEPT !.last = outcome,
                            !.rolled = IF outcome = "connected_err" THEN TRUE
                                       ELSE wk.rolled]

\* ssam_kip_get_connection_state
ssam_kip_get_connection_state_raw(ok) ==
    IF ok
    THEN [status |-> 0, state |-> IF physConn THEN "CONNECTED" ELSE "UNINITIALIZED"]
    ELSE [status |-> -ENXIO, state |-> wk.state]
ssam_kip_get_connection_state(ok) ==
    IF ok
    THEN [status |-> 0, state |-> IF physConn THEN "CONNECTED" ELSE "DISCONNECTED"]
    ELSE [status |-> -ENXIO, state |-> wk.state]

\* workfn: the query of the connection state; a failed query ends the work
WorkQuery_requeue ==
    /\ wk.pc = "query"
    /\ \E ok \in BOOLEAN :
         LET r == ssam_kip_get_connection_state(ok) IN
         IF r.status # 0
         THEN /\ running' = running - 1
              /\ wk' = [IdleWork EXCEPT !.last = "qfail", !.rolled = wk.rolled]
              /\ pending' = 1
         ELSE /\ wk' = [wk EXCEPT !.pc = "compare", !.status = 0, !.state = r.state]
              /\ UNCHANGED <<running, pending>>
    /\ UNCHANGED ctrlVars /\ UNCHANGED devVars /\ UNCHANGED envVars
    /\ UNCHANGED <<hubNodes, hubpc, remover, hubState, notifReg, timer, schedRet>>
    /\ UNCHANGED auxVars
WorkQuery ==
    /\ wk.pc = "query"
    /\ \E ok \in BOOLEAN :
         LET r == ssam_kip_get_connection_state(ok) IN
         IF r.status # 0
         THEN /\ running' = running - 1
              /\ wk' = [IdleWork EXCEPT !.last = "qfail", !.rolled = wk.rolled]
         ELSE /\ wk' = [wk EXCEPT !.pc = "compare", !.status = 0, !.state = r.state]
              /\ UNCHANGED running
    /\ UNCHANGED ctrlVars /\ UNCHANGED devVars /\ UNCHANGED envVars
    /\ UNCHANGED <<hubNodes, hubpc, remover, hubState, notifReg, pending, timer, schedRet>>
    /\ UNCHANGED auxVars

\* workfn: nothing to do when the queried state is the current one
same_state_never(cur, new) == FALSE
same_state(cur, new) == cur = new

\* workfn: compare with and update hub->state
WorkCompare ==
    /\ wk.pc = "compare"
    /\ IF same_state(hubState, wk.state)
       THEN /\ running' = running - 1
            /\ wk' = [IdleWork EXCEPT !.last = "same", !.rolled = wk.rolled]
            /\ UNCHANGED hubState
       ELSE /\ hubState' = wk.state
            /\ wk' = [wk EXCEPT !.pc = IF wk.state = "CONNECTED"
                                       THEN "register" ELSE "hot_remove",
                                !.idx = 1,
                                !.rolled = @ /\ wk.state # "DISCONNECTED"]
            /\ UNCHANGED running
    /\ UNCHANGED ctrlVars /\ UNCHANGED devVars /\ UNCHANGED envVars
    /\ UNCHANGED <<hubNodes, hubpc, remover, notifReg, pending, timer, schedRet>>
    /\ UNCHANGED auxVars

\* ssam_hot_remove_clients(&hub->sdev->dev)
WorkHotRemove_keep ==
    /\ wk.pc = "hot_remove"
    /\ wk' = [wk EXCEPT !.pc = "report"]
    /\ UNCHANGED ctrlVars /\ UNCHANGED envVars /\ UNCHANGED devVars
    /\ UNCHANGED <<hubNodes, hubpc, remover, hubState, notifReg,
                   pending, timer, schedRet, running>>
    /\ UNCHANGED auxVars
WorkHotRemove ==
    /\ wk.pc = "hot_remove"
    /\ ssam_remove_clients
    /\ wk' = [wk EXCEPT !.pc = "report"]
    /\ UNCHANGED ctrlVars /\ UNCHANGED envVars
    /\ UNCHANGED <<hubNodes, addObs, hubpc, remover, hubState, notifReg,
                   pending, timer, schedRet, running>>
    /\ UNCHANGED auxVars

\* fwnode_for_each_child_node: the next child node, or "return 0"
LoopNext(w) ==
    IF w.idx < MaxTemplates
    THEN [w EXCEPT !.pc = "register", !.idx = w.idx + 1]
    ELSE [w EXCEPT !.pc = "report", !.status = 0]

\* the errors that end the enumeration
fatal_all(status) == status # 0
fatal(status) == status # 0 /\ status # -EINVAL

\* ssam_hub_register_clients: ssam_hub_add_device of child node wk.idx up to
\* the state check of ssam_device_add
WorkAddChild ==
    /\ wk.pc = "register"
    /\ LET d == wk.idx
           r == ssam_uid_from_string(hubNodes[d], NoUid)
       IN IF r.status # 0
          THEN /\ wk' = IF fatal(r.status)
                        THEN [wk EXCEPT !.pc = "err", !.status = r.status]
                        ELSE LoopNext([wk EXCEPT !.status = r.status])
               /\ UNCHANGED <<sdev, ctrlRefs, addObs, lockReaders>>
          ELSE \E mem \in BOOLEAN :
                 IF ~mem
                 THEN /\ wk' = [wk EXCEPT !.pc = "err", !.status = -ENOMEM]
                      /\ UNCHANGED <<sdev, ctrlRefs, addObs, lockReaders>>
                 ELSE LET status == ssam_device_add_check(ctrlState) IN
                      /\ statelock_free
                      /\ IF status # 0
                         THEN /\ ctrlRefs' = ssam_device_release(
                                                 ssam_controller_get(ctrlRefs))
                              /\ UNCHANGED <<sdev, lockReaders>>
                              /\ addObs' = Observe(d, ctrlState, status,
                                                   Registered, RegisteredIn(sdev'))
                              /\ wk' = [wk EXCEPT !.pc = "err", !.status = status]
                         ELSE /\ ctrlRefs' = ssam_controller_get(ctrlRefs)
                              /\ sdev' = [sdev EXCEPT ![d] =
                                            [ssam_device_alloc(r.uid) EXCEPT
                                               !.parent = "hub", !.seen = ctrlState]]
                              /\ lockReaders' = lockReaders + 1
                              /\ wk' = [wk EXCEPT !.pc = "devadd"]
                              /\ UNCHANGED addObs
    /\ UNCHANGED <<ctrlState, lockWriter, sdpc, hubNodes>>
    /\ UNCHANGED <<hubpc, remover, hubState, notifReg, pending, timer, schedRet, running>>
    /\ UNCHANGED envVars
    /\ UNCHANGED auxVars

\* ssam_hub_add_device: device_add and unlock; a device that was not added
\* is put again
WorkDevAdd ==
    /\ wk.pc = "devadd"
    /\ \E ok \in BOOLEAN :
         LET d == wk.idx
             status == device_add(ok)
         IN /\ IF status = 0
               THEN /\ sdev' = [sdev EXCEPT ![d].st = "registered"]
                    /\ UNCHANGED ctrlRefs
                    /\ wk' = LoopNext([wk EXCEPT !.status = 0])
               ELSE /\ sdev' = [sdev EXCEPT ![d] = NoDev]
                    /\ ctrlRefs' = ssam_device_release(ctrlRefs)
                    /\ wk' = [wk EXCEPT !.pc = "err", !.status = status]
            /\ addObs' = Observe(d, sdev[d].seen, status,
                                 Registered, RegisteredIn(sdev'))
    /\ lockReaders' = lockReaders - 1
    /\ UNCHANGED <<ctrlState, lockWriter, sdpc, hubNodes>>
    /\ UNCHANGED <<hubpc, remover, hubState, notifReg, pending, timer, schedRet, running>>
    /\ UNCHANGED envVars
    /\ UNCHANGED auxVars

\* ssam_hub_register_clients, label err: the children are removed again
WorkErr_keep ==
    /\ wk.pc = "err"
    /\ wk' = [wk EXCEPT !.pc = "report"]
    /\ UNCHANGED ctrlVars /\ UNCHANGED envVars /\ UNCHANGED devVars
    /\ UNCHANGED <<hubNodes, hubpc, remover, hubState, notifReg,
                   pending, timer, schedRet, running>>
    /\ UNCHANGED auxVars
WorkErr ==
    /\ wk.pc = "err"
    /\ ssam_remove_clients
    /\ wk' = [wk EXCEPT !.pc = "report"]
    /\ UNCHANGED ctrlVars /\ UNCHANGED envVars
    /\ UNCHANGED <<hubNodes, addObs, hubpc, remover, hubState, notifReg,
                   pending, timer, schedRet, running>>
    /\ UNCHANGED auxVars

\* workfn: the update failure is logged and the work function returns
WorkReport ==
    /\ wk.pc = "report"
    /\ WorkReturn(IF wk.state = "DISCONNECTED" THEN "disconnected"
                  ELSE IF wk.status = 0 THEN "connected_ok" ELSE "connected_err")
    /\ UNCHANGED ctrlVars /\ UNCHANGED devVars /\ UNCHANGED envVars
    /\ UNCHANGED <<hubNodes, hubpc, remover, hubState, notifReg, pending, timer, schedRet>>
    /\ UNCHANGED auxVars

\* ---- events, resume and time ---------------------------------------------

ConnectionEvent(c) ==
    [command_id |-> SSAM_EVENT_KIP_CID_CONNECTION, length |-> 1,
     data0 |-> IF c THEN 1 ELSE 0]

OtherEvents ==
    {[command_id |-> 1, length |-> 1, data0 |-> 0],
     [command_id |-> SSAM_EVENT_KIP_CID_CONNECTION, length |-> 0, data0 |-> 0]}

\* the keyboard cover is attached or detached; the EC reports it while the
\* hub's notifier is registered
PhysChange ==
    /\ notifReg => Len(events) < MaxEvents
    /\ physConn' = ~physConn
    /\ events' = IF notifReg THEN Append(events, ConnectionEvent(physConn'))
                 ELSE events
    /\ UNCHANGED ctrlVars /\ UNCHANGED devVars /\ UNCHANGED hubVars
    /\ UNCHANGED <<hubNodes, connectAge>>
    /\ UNCHANGED auxVars

\* some other event of the KIP target category
OtherEvent ==
    /\ notifReg /\ Len(events) < MaxEvents
    /\ \E e \in OtherEvents : events' = Append(events, e)
    /\ UNCHANGED ctrlVars /\ UNCHANGED devVars /\ UNCHANGED hubVars
    /\ UNCHANGED <<hubNodes, physConn, connectAge>>
    /\ UNCHANGED auxVars

\* ssam_kip_hub_notif for the next event in flight
ssam_kip_hub_notif_direct ==
    /\ notifReg /\ events # <<>>
    /\ LET event == Head(events) IN
       IF event.command_id # SSAM_EVENT_KIP_CID_CONNECTION \/ event.length < 1
       THEN UNCHANGED <<pending, timer, schedRet, connectAge, hubState>>
       ELSE /\ schedule_delayed_work(IF event.data0 # 0
                                     THEN SSAM_KIP_UPDATE_CONNECT_DELAY ELSE 0)
            /\ hubState' = IF event.data0 # 0 THEN "CONNECTED" ELSE "DISCONNECTED"
            /\ connectAge' = IF event.data0 # 0 /\ HubChildren = {}
                             THEN 0 ELSE connectAge
    /\ events' = Tail(events)
    /\ UNCHANGED ctrlVars /\ UNCHANGED devVars
    /\ UNCHANGED <<hubNodes, hubpc, remover, notifReg, running, wk, physConn>>
    /\ UNCHANGED auxVars
ssam_kip_hub_notif ==
    /\ notifReg /\ events # <<>>
    /\ LET event == Head(events) IN
       IF event.command_id # SSAM_EVENT_KIP_CID_CONNECTION \/ event.length < 1
       THEN UNCHANGED <<pending, timer, schedRet, connectAge>>
       ELSE /\ schedule_delayed_work(IF event.data0 # 0
                                     THEN SSAM_KIP_UPDATE_CONNECT_DELAY ELSE 0)
            /\ connectAge' = IF event.data0 # 0 /\ HubChildren = {}
                             THEN 0 ELSE connectAge
    /\ events' = Tail(events)
    /\ UNCHANGED ctrlVars /\ UNCHANGED devVars
    /\ UNCHANGED <<hubNodes, hubpc, remover, hubState, notifReg, running, wk, physConn>>
    /\ UNCHANGED auxVars

\* ssam_kip_hub_resume
ssam_kip_hub_resume ==
    /\ hubpc = "bound"
    /\ schedule_delayed_work(0)
    /\ UNCHANGED ctrlVars /\ UNCHANGED devVars /\ UNCHANGED envVars
    /\ UNCHANGED <<hubNodes, hubpc, remover, hubState, notifReg, running, wk>>
    /\ UNCHANGED auxVars

\* time passes: one tick of the delayed-work timer
Tick ==
    /\ (pending > 0 /\ timer > 0) \/ connectAge \in 0..(SSAM_KIP_UPDATE_CONNECT_DELAY - 1)
    /\ timer' = IF timer > 0 THEN timer - 1 ELSE 0
    /\ connectAge' = IF connectAge \in 0..(SSAM_KIP_UPDATE_CONNECT_DELAY - 2)
                     THEN connectAge + 1 ELSE -1
    /\ UNCHANGED ctrlVars /\ UNCHANGED devVars
    /\ UNCHANGED <<hubNodes, hubpc, remover, hubState, notifReg, pending, schedRet,
                   running, wk>>
    /\ UNCHANGED <<physConn, events>>
    /\ UNCHANGED auxVars

\* ---- specification --------------------------------------------------------

Next ==
    \/ ControllerStart
    \/ ShutdownLock
    \/ ssam_controller_remove_clients
    \/ ShutdownFinish
    \/ ClientAddHub
    \/ ClientDevAdd
    \/ ClientRemoveHub
    \/ ssam_kip_hub_probe
    \/ ssam_kip_hub_probe_finish
    \/ ssam_kip_hub_remove_unregister
    \/ ssam_kip_hub_remove_cancel
    \/ ssam_kip_hub_remove_sync
    \/ ssam_kip_hub_remove_clients
    \/ HubDeviceDel
    \/ WorkStart
    \/ WorkQuery
    \/ WorkCompare
    \/ WorkHotRemove
    \/ WorkAddChild
    \/ WorkDevAdd
    \/ WorkErr
    \/ WorkReport
    \/ PhysChange
    \/ OtherEvent
    \/ ssam_kip_hub_notif
    \/ ssam_kip_hub_resume
    \/ Tick

Spec == Init /\ [][Next]_vars

TypeOK ==
    /\ ctrlState \in {"INITIALIZED", "STARTED", "STOPPED"}
    /\ lockWriter \in BOOLEAN
    /\ lockReaders \in 0..2
    /\ ctrlRefs \in 0..(MaxTemplates + 1)
    /\ hubState \in {"none", "UNINITIALIZED", "CONNECTED", "DISCONNECTED"}
    /\ pending \in 0..1
    /\ timer \in 0..SSAM_KIP_UPDATE_CONNECT_DELAY
    /\ running \in 0..1
    /\ Len(events) <= MaxEvents
    /\ connectAge \in -1..(SSAM_KIP_UPDATE_CONNECT_DELAY - 1)

\* ---- event notifier dispatch ---------------------------------------------------

busVars == <<bdrv, bdev, benum, bobs, mobs>>

NfRegistered(id) == \E i \in 1..Len(nf.list) : nf.list[i].id = id

\* the notifier list is kept in dispatch order: ascending priority value, a
\* new block behind the registered blocks of the same priority
nf_insert(list, n) ==
    SelectSeq(list, LAMBDA e : e.priority <= n.priority) \o <<n>>
    \o SelectSeq(list, LAMBDA e : e.priority > n.priority)

ssam_notifier_register(n) ==
    /\ nf.event = "none"
    /\ ~NfRegistered(n.id)
    /\ nf' = [nf EXCEPT !.list = nf_insert(nf.list, n)]
    /\ UNCHANGED <<hubModelVars, vhf, up>> /\ UNCHANGED busVars /\ UNCHANGED xf

\* ssam_kip_hub_probe registers hub->notif
NfRegisterHub == ssam_notifier_register(hub_notif)

\* surface_sam_sid_vhf_probe registers vhf->notif
NfRegisterVhf == ssam_notifier_register(vhf_notif)

\* some other client registers a notifier for the KIP target category
NfRegisterClient == \E p \in 0..MaxPriority : ssam_notifier_register(client_notif(p))

\* a notifier is unregistered (ssam_kip_hub_remove, the err_add_hid path)
NfUnregister ==
    /\ nf.event = "none"
    /\ \E i \in 1..Len(nf.list) :
          nf' = [nf EXCEPT !.list = SubSeq(nf.list, 1, i - 1)
                                    \o SubSeq(nf.list, i + 1, Len(nf.list)),
                           !.log = <<>>]
    /\ UNCHANGED <<hubModelVars, vhf, up>> /\ UNCHANGED busVars /\ UNCHANGED xf

\* an event of some target category arrives
NfEvent ==
    /\ nf.event = "none" /\ nf.list # <<>>
    /\ \E tc \in {"KIP", "HID"} : nf' = [nf EXCEPT !.event = tc, !.pos = 1, !.log = <<>>]
    /\ UNCHANGED <<hubModelVars, vhf, up>> /\ UNCHANGED busVars /\ UNCHANGED xf

\* the dispatcher calls the next notifier of the list that listens to the
\* event's target category
NfCall ==
    /\ nf.event # "none" /\ nf.pos <= Len(nf.list)
    /\ nf' = [nf EXCEPT !.pos = @ + 1,
                        !.log = IF nf.list[nf.pos].tc = nf.event
                                THEN Append(@, nf.list[nf.pos].id) ELSE @]
    /\ UNCHANGED <<hubModelVars, vhf, up>> /\ UNCHANGED busVars /\ UNCHANGED xf

\* every notifier has been called
NfDone ==
    /\ nf.event # "none" /\ nf.pos > Len(nf.list)
    /\ nf' = [nf EXCEPT !.event = "none", !.pos = 0]
    /\ UNCHANGED <<hubModelVars, vhf, up>> /\ UNCHANGED busVars /\ UNCHANGED xf

NextNf ==
    \/ NfRegisterHub
    \/ NfRegisterVhf
    \/ NfRegisterClient
    \/ NfUnregister
    \/ NfEvent
    \/ NfCall
    \/ NfDone

SpecNf == Init /\ [][NextNf]_vars

\* ---- the HID descriptor transfer (vhf_get_hid_descriptor) --------------------

\* what surface_sam_ssh_rqst can bring back for a read request at offset o:
\* a status, and in resp.rqst, which the response is received into, the
\* offset and the length of the data received and the end flag
Responses(o) ==
    IF xf.remote = "good"
    THEN {[status |-> 0, offset |-> o, length |-> min(xf.cap, xf.L - o), end |-> e] :
            e \in IF o + xf.cap >= xf.L THEN {0, 1} ELSE {0}}
    ELSE [status : {0}, offset : 0..xf.L, length : 0..xf.cap, end : {0, 1}]
         \cup [status : {-EIO, -ENXIO}, offset : {o}, length : {0}, end : {0}]

\* resp.data.pld of a response to a read at offset o carrying n bytes
pld(o, n) == [j \in 1..n |-> desc_byte(o + j - 1)]

\* memcpy(buf + offset, pld, length), the part of it that lands in the buffer
memcpy_at_zero(buf, offset, p) ==
    [i \in 1..Len(buf) |-> IF i <= Len(p) THEN p[i] ELSE buf[i]]
memcpy(buf, offset, p) ==
    [i \in 1..Len(buf) |->
        IF offset < i /\ i <= offset + Len(p) THEN p[i - offset] ELSE buf[i]]

\* "first fetch 00 to get the total length"
VhfInfo ==
    /\ xf.pc = "info"
    /\ \E status \in IF xf.remote = "good" THEN {0} ELSE {0, -EIO, -ENXIO} :
          xf' = IF status # 0
                THEN [xf EXCEPT !.pc = "ret", !.status = status, !.failed = status]
                ELSE [xf EXCEPT !.pc = "alloc", !.len = xf.L]
    /\ UNCHANGED <<hubModelVars, vhf, up>> /\ UNCHANGED nf /\ UNCHANGED busVars

\* buf = kzalloc(len), unchecked; resp.rqst set up for the reads
VhfAlloc ==
    /\ xf.pc = "alloc"
    /\ \E ok \in IF xf.remote = "good" THEN {TRUE} ELSE BOOLEAN :
          xf' = [xf EXCEPT !.pc = "loop",
                           !.buf = IF ok \/ xf.len = 0
                                   THEN [i \in 1..xf.len |-> 0] ELSE <<>>,
                           !.null = ~(ok \/ xf.len = 0),
                           !.alloc = ok \/ xf.len = 0,
                           !.offset = 0, !.length = xf.cap, !.end = 0]
    /\ UNCHANGED <<hubModelVars, vhf, up>> /\ UNCHANGED nf /\ UNCHANGED busVars

\* while (!resp.rqst.end && resp.rqst.offset < len); behind the loop the
\* buffer is handed to the caller
VhfLoop ==
    /\ xf.pc = "loop"
    /\ xf' = IF xf.end = 0 /\ xf.offset < xf.len
             THEN [xf EXCEPT !.pc = "rqst"]
             ELSE [xf EXCEPT !.pc = "ret", !.status = 0,
                             !.desc = [stored |-> TRUE, null |-> xf.null,
                                       data |-> xf.buf],
                             !.size = xf.len]
    /\ UNCHANGED <<hubModelVars, vhf, up>> /\ UNCHANGED nf /\ UNCHANGED busVars

\* the request failed: kfree(buf); return status
read_failed_leak(r) ==
    [xf EXCEPT !.pc = "ret", !.status = r.status, !.failed = r.status,
               !.nreq = min(@ + 1, MaxReq)]
read_failed(r) ==
    [xf EXCEPT !.pc = "ret", !.status = r.status, !.failed = r.status,
               !.freed = xf.alloc, !.nreq = min(@ + 1, MaxReq)]

\* resp.rqst.offset += resp.rqst.length
advance(offset, length) == offset + length

\* the response overwrote resp; its data is copied out and the offset advanced
\* (concat records the chunks up to the first response that is not the full
\* chunk at the offset asked for)
read_done(r) ==
    LET p == pld(r.offset, r.length) IN
    [xf EXCEPT !.pc = "loop",
               !.length = r.length, !.end = r.end,
               !.buf = IF xf.null THEN @ ELSE memcpy(@, r.offset, p),
               !.offset = advance(r.offset, r.length),
               !.nreq = min(@ + 1, MaxReq),
               !.concat = IF xf.full THEN @ \o p ELSE @,
               !.written = @ \cup {i \in 1..xf.len :
                                      r.offset < i /\ i <= r.offset + r.length},
               !.early = @ \/ (r.end = 1 /\ r.offset + r.length < xf.len),
               !.full = @ /\ r.offset = xf.offset
                          /\ r.length = min(xf.cap, xf.len - xf.offset),
               !.last = r.length,
               !.overflow = @ \/ r.offset + r.length > xf.len]

\* one pass of the loop body: a read request and its response. A copy to a
\* buffer that was not allocated stops the kernel thread; a copy that runs
\* over the end of the buffer either goes by unnoticed or stops the thread.
VhfRead ==
    /\ xf.pc = "rqst"
    /\ \E r \in Responses(xf.offset) :
          IF r.status # 0
          THEN xf' = read_failed(r)
          ELSE \/ /\ ~(xf.null /\ r.length > 0)
                  /\ xf' = read_done(r)
               \/ /\ r.length > 0
                  /\ xf.null \/ r.offset + r.length > xf.len
                  /\ xf' = [xf EXCEPT !.pc = "oops", !.nreq = min(@ + 1, MaxReq)]
    /\ UNCHANGED <<hubModelVars, vhf, up>> /\ UNCHANGED nf /\ UNCHANGED busVars

\* sid_vhf_hid_parse, behind its call of vhf_get_hid_descriptor
sid_vhf_hid_parse ==
    /\ xf.pc = "ret"
    /\ xf' = IF xf.status # 0
             THEN [xf EXCEPT !.pc = "end", !.ret = -EIO]
             ELSE [xf EXCEPT !.pc = "end", !.ret = 0, !.parsed = TRUE, !.freed = TRUE]
    /\ UNCHANGED <<hubModelVars, vhf, up>> /\ UNCHANGED nf /\ UNCHANGED busVars

NextXf ==
    \/ VhfInfo
    \/ VhfAlloc
    \/ VhfLoop
    \/ VhfRead
    \/ sid_vhf_hid_parse

\* a transfer of every configuration is started
InitTransfer ==
    /\ InitHubRest /\ InitNf /\ InitBus /\ InitVhf /\ InitUp
    /\ xf \in {XfStart(c) : c \in XfConfigs}

SpecXf == InitTransfer /\ [][NextXf]_vars

\* ---- the client bus: matching, probing, enumeration ---------------------------

guid_is_null(g) == g = guid_null
guid_equal(a, b) == a = b

\* ssam_device_id_match: the index of the entry returned, 0 for NULL
RECURSIVE id_match_from(_, _, _)
id_match_from(table, guid, i) ==
    IF guid_is_null(table[i]) THEN 0
    ELSE IF guid_equal(table[i], guid) THEN i
    ELSE id_match_from(table, guid, i + 1)

RECURSIVE id_match_from_eq_first(_, _, _)
id_match_from_eq_first(table, guid, i) ==
    IF guid_equal(table[i], guid) THEN i
    ELSE IF guid_is_null(table[i]) THEN 0
    ELSE id_match_from_eq_first(table, guid, i + 1)

ssam_device_id_match_eq_first(table, guid) == id_match_from_eq_first(table, guid, 1)
ssam_device_id_match(table, guid) == id_match_from(table, guid, 1)

\* a caller looks a type up in a match table
IdMatch ==
    /\ ~mobs.called
    /\ mobs' = [mobs EXCEPT !.called = TRUE,
                            !.ret = ssam_device_id_match(mobs.table, mobs.guid)]
    /\ UNCHANGED <<hubModelVars, vhf, up>> /\ UNCHANGED <<nf, xf, bdrv, bdev, benum, bobs>>

\* the caller is done with the entry
IdMatchReturn ==
    /\ mobs.called
    /\ mobs' = [mobs EXCEPT !.called = FALSE, !.ret = 0]
    /\ UNCHANGED <<hubModelVars, vhf, up>> /\ UNCHANGED <<nf, xf, bdrv, bdev, benum, bobs>>

NextMatch ==
    \/ IdMatch
    \/ IdMatchReturn

\* a look-up of every type in every match table
InitMatch ==
    /\ InitHub /\ InitNf /\ InitXf /\ InitVhf /\ InitUp
    /\ bdrv = NoDriver /\ bdev = [d \in BusDevs |-> NoBusDev]
    /\ benum = NoEnum /\ bobs = NoBusObs
    /\ mobs \in {[NoMatchObs EXCEPT !.table = t, !.guid = g] :
                    t \in MatchTables, g \in Tags \cup {guid_null}}

SpecMatch == InitMatch /\ [][NextMatch]_vars

\* ssam_bus_match
ssam_bus_match_never(sdrv, dev) == FALSE
ssam_bus_match(sdrv, dev) == ssam_device_id_match(sdrv.match_table, dev.type) # 0

\* device_add finds the name "<parent>-<type>:00" taken by a registered child
\* of the same parent
name_taken_never(devs, type) == FALSE
name_taken(devs, type) ==
    \E e \in BusDevs : devs[e].st = "registered" /\ devs[e].type = type

\* device_add of a named device
bus_device_add(devs, type) == device_add(~name_taken(devs, type))

\* ssam_remove_clients(parent): every child is unregistered, which unbinds it
bus_remove_clients == [d \in BusDevs |-> NoBusDev]

busRest == <<nf, xf, mobs>>

\* __ssam_device_driver_register: driver_register looks for the devices of
\* the bus that have no driver; they are probed asynchronously
DriverRegister ==
    /\ ~bdrv.registered
    /\ \E t \in DriverTables : bdrv' = [registered |-> TRUE, match_table |-> t]
    /\ bdev' = [d \in BusDevs |->
                  IF bdev[d].st = "registered" /\ bdev[d].need < 2
                  THEN [bdev[d] EXCEPT !.need = @ + 1] ELSE bdev[d]]
    /\ UNCHANGED <<benum, bobs>>
    /\ UNCHANGED <<hubModelVars, vhf, up>> /\ UNCHANGED busRest

\* ssam_device_driver_unregister: waits for the asynchronous probes, then
\* unbinds the driver's devices (ssam_bus_remove)
DriverUnregister ==
    /\ bdrv.registered
    /\ \A d \in BusDevs : bdev[d].need = 0
    /\ bdrv' = NoDriver
    /\ bdev' = [d \in BusDevs |-> [bdev[d] EXCEPT !.drv = "none", !.eager = FALSE]]
    /\ UNCHANGED <<benum, bobs>>
    /\ UNCHANGED <<hubModelVars, vhf, up>> /\ UNCHANGED busRest

\* sdrv->probe failed: the device stays on the bus without a driver
probe_failed_unregister(dev) == NoBusDev
probe_failed(dev) ==
    [dev EXCEPT !.need = @ - 1, !.probes = min(@ + 1, 2), !.pfail = TRUE]

\* sdrv->probe succeeded: the device is bound
probe_ok(dev) ==
    [dev EXCEPT !.need = @ - 1, !.probes = min(@ + 1, 2), !.pfail = FALSE,
                !.drv = "bound"]

\* an asynchronous attach of device d runs: ssam_bus_match against the
\* registered driver, then ssam_bus_probe
BusAttach(d) ==
    /\ bdev[d].st = "registered" /\ bdev[d].need > 0
    /\ IF bdev[d].drv = "none" /\ bdrv.registered /\ ssam_bus_match(bdrv, bdev[d])
       THEN \E ok \in BOOLEAN :
               bdev' = [bdev EXCEPT ![d] = IF ok THEN probe_ok(@) ELSE probe_failed(@)]
       ELSE bdev' = [bdev EXCEPT ![d].need = @ - 1]
    /\ UNCHANGED <<bdrv, benum, bobs>>
    /\ UNCHANGED <<hubModelVars, vhf, up>> /\ UNCHANGED busRest

BusAttachAny == \E d \in BusDevs : BusAttach(d)

\* ssam_hub_register_clients is called for the parent
BusEnumStart ==
    /\ benum.pc = "idle"
    /\ benum' = [benum EXCEPT !.pc = "add", !.idx = 1, !.status = 0]
    /\ UNCHANGED <<bdrv, bdev, bobs>>
    /\ UNCHANGED <<hubModelVars, vhf, up>> /\ UNCHANGED busRest

BusObserve(d, type, seen, ret, after) ==
    [called |-> TRUE, dev |-> d, type |-> type, seen |-> seen,
     dup |-> \E e \in BusDevs : bdev[e].st = "registered" /\ bdev[e].type = type,
     ret |-> ret,
     kept |-> \A e \in BusDevs :
                 (bdev[e].st = "registered" /\ e # d) => after[e] = bdev[e]]

\* ssam_hub_add_device for child node benum.idx: ssam_device_alloc, then
\* ssam_device_add (state check, dev_set_name, device_add); a device that was
\* added is probed asynchronously
BusEnumAdd ==
    /\ benum.pc = "add"
    /\ LET d == benum.idx
           type == benum.nodes[d]
           next(status) ==
               IF fatal(status) THEN [benum EXCEPT !.pc = "err", !.status = status]
               ELSE IF d = MaxTemplates THEN [benum EXCEPT !.pc = "done", !.status = 0]
               ELSE [benum EXCEPT !.idx = d + 1]
       IN \E mem \in BOOLEAN :
            IF ~mem
            THEN /\ benum' = next(-ENOMEM)
                 /\ bobs' = NoBusObs
                 /\ UNCHANGED bdev
            ELSE LET chk == ssam_device_add_check(ctrlState)
                     status == IF chk # 0 THEN chk ELSE bus_device_add(bdev, type)
                     after == IF status # 0 THEN bdev
                              ELSE [bdev EXCEPT ![d] =
                                      [NoBusDev EXCEPT !.st = "registered",
                                                       !.type = type, !.need = 1,
                                                       !.eager = bdrv.registered]]
                 IN /\ bdev' = after
                    /\ bobs' = BusObserve(d, type, ctrlState, status, after)
                    /\ benum' = next(status)
    /\ UNCHANGED bdrv
    /\ UNCHANGED <<hubModelVars, vhf, up>> /\ UNCHANGED busRest

\* err: ssam_remove_clients(parent); return status
BusEnumErr ==
    /\ benum.pc = "err"
    /\ bdev' = bus_remove_clients
    /\ benum' = [benum EXCEPT !.pc = "done"]
    /\ UNCHANGED <<bdrv, bobs>>
    /\ UNCHANGED <<hubModelVars, vhf, up>> /\ UNCHANGED busRest

\* the parent removes its clients (hot removal, removal of the parent)
BusRemoveClients ==
    /\ benum.pc = "done"
    /\ bdev' = bus_remove_clients
    /\ benum' = [benum EXCEPT !.pc = "idle", !.idx = 0, !.status = 0]
    /\ UNCHANGED <<bdrv, bobs>>
    /\ UNCHANGED <<hubModelVars, vhf, up>> /\ UNCHANGED busRest

NextBus ==
    \/ ControllerStart
    \/ DriverRegister
    \/ DriverUnregister
    \/ BusAttachAny
    \/ BusEnumStart
    \/ BusEnumAdd
    \/ BusEnumErr
    \/ BusRemoveClients

\* an enumeration of every list of child nodes
InitEnum ==
    /\ InitHub /\ InitNf /\ InitXf /\ InitVhf /\ InitUp
    /\ bdrv = NoDriver /\ bdev = [d \in BusDevs |-> NoBusDev]
    /\ bobs = NoBusObs /\ mobs = NoMatchObs
    /\ benum \in {[NoEnum EXCEPT !.nodes = n] : n \in BusNodes}

SpecBus == InitEnum /\ [][NextBus]_vars

\* ---- the HID peripheral: report requests ---------------------------------------

hidRest == <<nf, bdrv, bdev, benum, bobs, mobs, xf, up>>

\* the touchpad reports the EC does not answer a GET FEATURE for
get_feature_skipped_6to9(reportnum) == reportnum \in {6, 7, 8, 9}
get_feature_skipped(reportnum) ==
    reportnum = 6 \/ reportnum = 7 \/ reportnum = 8 \/ reportnum = 9 \/ reportnum = 11

\* the switch over the report type and the request type: the command id of
\* the request, or the value returned at once
raw_request_route(reportnum, rtype, reqtype) ==
    CASE rtype = "HID_OUTPUT_REPORT" -> [ret |-> FALSE, val |-> 0, cid |-> 1]
      [] rtype = "HID_FEATURE_REPORT" /\ reqtype = "HID_REQ_GET_REPORT" ->
            IF get_feature_skipped(reportnum)
            THEN [ret |-> TRUE, val |-> 0, cid |-> 0]
            ELSE [ret |-> FALSE, val |-> 0, cid |-> 2]
      [] rtype = "HID_FEATURE_REPORT" /\ reqtype = "HID_REQ_SET_REPORT" ->
            [ret |-> FALSE, val |-> 0, cid |-> 3]
      [] OTHER -> [ret |-> TRUE, val |-> -EIO, cid |-> 0]

\* what surface_sam_ssh_rqst can return for a result buffer of cap bytes
RqstResults(cap) ==
    {[status |-> 0, len |-> n] : n \in 0..cap}
        \cup {[status |-> -EIO, len |-> 0]}

\* sid_vhf_hid_raw_request; sent is the sequence of the requests it issued
sid_vhf_hid_raw_request ==
    \E reportnum \in ReportNums, len \in {1, 2},
       rtype \in ReportTypes, reqtype \in RequestTypes :
       LET c == raw_request_route(reportnum, rtype, reqtype)
           get == reqtype = "HID_REQ_GET_REPORT"
           rqst == [tc |-> SAM_EVENT_SID_VHF_TC, chn |-> 2, iid |-> vhf.instance,
                    cid |-> c.cid, snc |-> IF get THEN 1 ELSE 0,
                    cdl |-> IF get THEN 1 ELSE len, pld0 |-> reportnum]
           call == [called |-> TRUE, reportnum |-> reportnum, len |-> len,
                    rtype |-> rtype, reqtype |-> reqtype, sent |-> <<>>, ret |-> 0]
       IN
       /\ IF c.ret
          THEN vhf' = [vhf EXCEPT !.rq = [call EXCEPT !.ret = c.val]]
          ELSE \E result \in RqstResults(len) :
                  vhf' = [vhf EXCEPT !.rq =
                            [call EXCEPT !.sent = <<rqst>>,
                                         !.ret = IF result.status # 0
                                                 THEN result.status
                                                 ELSE result.len]]
       /\ UNCHANGED hubModelVars /\ UNCHANGED hidRest

NextHidRequest == sid_vhf_hid_raw_request

InitHidRequest ==
    /\ InitHubRest /\ InitNf /\ InitBus /\ InitXf /\ InitUp
    /\ vhf \in {VhfProbed(i) : i \in {0, 1}}

SpecHidRequest == InitHidRequest /\ [][NextHidRequest]_vars

\* ---- the HID peripheral: inbound events ----------------------------------------

set_bit(nr, addr) == addr \cup {nr}
clear_bit(nr, addr) == addr \ {nr}
test_bit_set(nr, addr) == TRUE
test_bit(nr, addr) == nr \in addr

sid_vhf_hid_open ==
    /\ vhf' = [vhf EXCEPT !.state = set_bit(VHF_HID_STARTED, vhf.state)]
    /\ vhf' # vhf
    /\ UNCHANGED hubModelVars /\ UNCHANGED hidRest

sid_vhf_hid_close ==
    /\ vhf' = [vhf EXCEPT !.state = clear_bit(VHF_HID_STARTED, vhf.state)]
    /\ vhf' # vhf
    /\ UNCHANGED hubModelVars /\ UNCHANGED hidRest

\* the four comparisons at the head of sid_vhf_event_handler
event_filter(v, event) ==
    /\ event.target_category = SSAM_SSH_TC_HID
    /\ event.channel = 2
    /\ event.instance_id = v.instance
    /\ ~(event.command_id # 0 /\ event.command_id # 3 /\ event.command_id # 4)

\* sid_vhf_event_handler up to the test of VHF_HID_STARTED
sid_vhf_event_handler ==
    /\ vhf.epc = "idle"
    /\ \E event \in HidEvents :
          LET obs == [NoEventObs EXCEPT !.called = TRUE, !.event = event,
                                        !.started = VHF_HID_STARTED \in vhf.state]
          IN
          IF ~event_filter(vhf, event)
          THEN vhf' = [vhf EXCEPT !.eobs = obs]
          ELSE IF ~test_bit(VHF_HID_STARTED, vhf.state)
          THEN vhf' = [vhf EXCEPT !.eobs = [obs EXCEPT !.handled = TRUE]]
          ELSE vhf' = [vhf EXCEPT !.epc = "report", !.event = event, !.eobs = obs]
    /\ UNCHANGED hubModelVars /\ UNCHANGED hidRest

\* hid_input_report and the return of sid_vhf_event_handler; open and close
\* are not excluded between the test of the bit and this call
hid_input_report ==
    /\ vhf.epc = "report"
    /\ \E status \in {0, -EINVAL} :
          vhf' = [vhf EXCEPT !.epc = "idle", !.event = NoHidEvent,
                             !.eobs = [@ EXCEPT !.forwarded = TRUE,
                                                !.started_at_report =
                                                    VHF_HID_STARTED \in vhf.state,
                                                !.handled = TRUE,
                                                !.status = status]]
    /\ UNCHANGED hubModelVars /\ UNCHANGED hidRest

NextHidEvent ==
    \/ sid_vhf_hid_open
    \/ sid_vhf_hid_close
    \/ sid_vhf_event_handler
    \/ hid_input_report

InitHidEvent ==
    /\ InitHubRest /\ InitNf /\ InitBus /\ InitXf /\ InitUp
    /\ vhf \in {VhfProbed(i) : i \in {0, 1}}

SpecHidEvent == InitHidEvent /\ [][NextHidEvent]_vars

\* ---- ssam_uid_from_string on arbitrary names ---------------------------------

\* texts of one field: two hex digits (lower and upper case), one digit, a
\* hex digit followed by another character, no hex digit, three digits
FieldTexts ==
    {<<"0","1">>, <<"0","e">>, <<"F","f">>, <<"5">>, <<"0","g">>, <<"z","z">>,
     <<"1","0","0">>}

Prefixes == {<<"s","s","a","m",":">>, <<"s","a","m",":">>}
Tails == {<<>>, <<"x">>}

RECURSIVE join(_)
join(fs) ==
    IF Len(fs) = 0 THEN <<>>
    ELSE IF Len(fs) = 1 THEN fs[1]
    ELSE fs[1] \o <<":">> \o join(Tail(fs))

\* names of four to six fields
UidStrings ==
    {pre \o join(SubSeq(<<f1, f2, <<"0","1">>, <<"0","0">>, f5, <<"0","6">> >>, 1, n)) \o t :
        pre \in Prefixes, f1 \in FieldTexts, f2 \in FieldTexts,
        f5 \in FieldTexts, n \in 4..6, t \in Tails}

\* the scheme ssam:dd:cc:tt:ii:ff of the device names
hex2(v) == <<HexDigits[(v \div 16) + 1], HexDigits[(v % 16) + 1]>>
ssam_uid_to_string(uid) ==
    <<"s","s","a","m",":">> \o
    join(<<hex2(uid.domain), hex2(uid.category), hex2(uid.target),
           hex2(uid.instance), hex2(uid.function)>>)

OtherUid == [domain |-> 1, category |-> 14, target |-> 1, instance |-> 0, function |-> 0]

upRest == <<nf, bdrv, bdev, benum, bobs, mobs, xf, vhf>>

\* one call of ssam_uid_from_string(up.str, &up.uid)
UidParse ==
    /\ up.pc = "idle"
    /\ LET r == ssam_uid_from_string(up.str, up.uid) IN
       up' = [up EXCEPT !.pc = "done", !.status = r.status, !.uid = r.uid]
    /\ UNCHANGED hubModelVars /\ UNCHANGED upRest

NextUid == UidParse

InitUid ==
    /\ InitHubRest /\ InitNf /\ InitBus /\ InitXf /\ InitVhf
    /\ up \in {[NoParse EXCEPT !.str = str, !.uid = u, !.before = u] :
                  str \in UidStrings, u \in {NoUid, OtherUid}}

SpecUid == InitUid /\ [][NextUid]_vars

\* ---- the bound hub under fair scheduling ------------------------------------

\* the hub behind a successful ssam_kip_hub_probe on a started controller:
\* the notifier is registered and the first update work is queued
InitBound ==
    /\ ctrlState = "STARTED"
    /\ lockWriter = FALSE
    /\ lockReaders = 0
    /\ ctrlRefs = 1
    /\ sdpc = "idle"
    /\ hubNodes \in Forests
    /\ sdev = [d \in Devs |->
                 IF d = HubDev
                 THEN [ssam_device_alloc(ssam_uid_from_string(ssam_node_hub_kip, NoUid).uid)
                          EXCEPT !.st = "registered", !.seen = "STARTED"]
                 ELSE NoDev]
    /\ hubpc = "bound"
    /\ remover = "none"
    /\ hubState = "UNINITIALIZED"
    /\ notifReg = TRUE
    /\ pending = 1
    /\ timer = 0
    /\ schedRet = "queued"
    /\ running = 0
    /\ wk = IdleWork
    /\ physConn \in BOOLEAN
    /\ events = <<>>
    /\ connectAge = -1
    /\ addObs = Observe(HubDev, "STARTED", 0, {}, {HubDev})
    /\ InitAux

\* the steps of the workqueue and of ssam_kip_hub_update_workfn; the first
\* half of ssam_hub_add_device apart
UpdateWork ==
    \/ WorkStart
    \/ WorkQuery
    \/ WorkCompare
    \/ WorkHotRemove
    \/ WorkDevAdd
    \/ WorkErr
    \/ WorkReport

NextBound ==
    \/ UpdateWork
    \/ WorkAddChild
    \/ PhysChange
    \/ OtherEvent
    \/ ssam_kip_hub_notif
    \/ ssam_kip_hub_resume
    \/ Tick

\* the workqueue runs a queued work whose timer has expired and a running
\* work function goes on (also in ssam_hub_add_device, which nothing blocks
\* while the controller is not shut down); the timer runs; an event in flight
\* is delivered
SpecBoundFair ==
    InitBound /\ [][NextBound]_vars
    /\ WF_vars(UpdateWork) /\ []<>(wk.pc # "register")
    /\ WF_vars(Tick) /\ WF_vars(ssam_kip_hub_notif)

\* ---- claims ---------------------------------------------------------------

\* C1: a device that is registered below the controller, directly or through
\* the hub, implies that the controller is in the started state
C1_RegisteredImpliesStarted ==
    \A d \in Devs :
       (/\ sdev[d].st = "registered"
        /\ \/ sdev[d].parent = "ctrl"
           \/ sdev[d].parent = "hub" /\ sdev[HubDev].st = "registered")
       => ctrlState = "STARTED"

\* the shutdown holds the lock and is removing the clients while the hub and
\* a child of the hub are registered
C1_Witness ==
    /\ sdpc = "remove" /\ lockWriter
    /\ sdev[HubDev].st = "registered"
    /\ HubChildren # {}

\* C2: ssam_device_add on a controller that is not started returns -ENXIO,
\* the device is not in the tree afterwards and the tree is unchanged
C2_NotReadyNoMutation ==
    (addObs.called /\ addObs.seen # "STARTED")
    => /\ addObs.ret = -ENXIO
       /\ ~addObs.visible
       /\ ~addObs.changed

\* an add was attempted after the controller had been shut down
C2_Witness ==
    /\ addObs.called /\ addObs.seen = "STOPPED"
    /\ addObs.ret = -ENXIO
    /\ addObs.dev \notin Registered

\* C3: the controller references held by devices are as many as the devices
\* that are allocated and not yet released
C3_RefsMatchDevices == ctrlRefs = Cardinality(Allocated)

\* an enumeration failed at its second node and was rolled back; only the hub
\* device holds a reference
C3_Witness ==
    /\ wk.pc = "report" /\ wk.status = -EEXIST /\ wk.idx = 2
    /\ ctrlRefs = 1 /\ Allocated = {HubDev}

\* C4: the hub state is Uninitialized when the hub is probed, it never returns
\* to Uninitialized, and it changes only to the state a successful query of
\* the running update work has just returned
C4_HubStateTransitions ==
    [][hubState' # hubState =>
         \/ hubState = "none" /\ hubState' = "UNINITIALIZED"
         \/ hubState' = "none"
         \/ /\ <<hubState, hubState'>> \in
                  {<<"UNINITIALIZED", "CONNECTED">>, <<"UNINITIALIZED", "DISCONNECTED">>,
                   <<"CONNECTED", "DISCONNECTED">>, <<"DISCONNECTED", "CONNECTED">>}
            /\ wk.pc = "compare" /\ wk.status = 0
            /\ hubState' = wk.state]_vars

\* the hub has just changed from Connected to Disconnected: its children are
\* still there
C4_Witness ==
    /\ hubState = "DISCONNECTED" /\ wk.pc = "hot_remove"
    /\ HubChildren # {}

\* C5: an update work whose queried state is the current hub state returns
\* without adding or removing a device and without changing the hub state
C5_SameStateNoop ==
    [][(wk.pc = "compare" /\ wk.state = hubState /\ wk' # wk) =>
         /\ wk'.pc = "idle"
         /\ hubState' = hubState
         /\ sdev' = sdev
         /\ ctrlRefs' = ctrlRefs]_vars

\* an update work found the state unchanged on a populated hub
C5_Witness ==
    /\ wk.pc = "idle" /\ wk.last = "same"
    /\ hubState = "CONNECTED" /\ HubChildren # {}

\* C6: when the enumeration on entry to Connected fails with an error other
\* than -EINVAL, the error is returned, the hub has no child device when the
\* enumeration has returned, and the hub state is Connected
C6_RollbackOnFailure ==
    /\ wk.pc = "err" => (wk.status # 0 /\ wk.status # -EINVAL)
    /\ (wk.pc = "report" /\ wk.state = "CONNECTED" /\ wk.status # 0)
       => /\ HubChildren = {}
          /\ hubState = "CONNECTED"
          /\ wk.status # -EINVAL

\* the second node failed after the first one had been added
C6_Witness ==
    /\ wk.pc = "report" /\ wk.state = "CONNECTED" /\ wk.idx = 2
    /\ wk.status \in {-EEXIST, -ENOMEM}
    /\ hubNodes[1] = ssam_node_hid_kip_keyboard
    /\ HubChildren = {}

\* C7: when an update work that entered Disconnected has finished its removal,
\* and whenever the hub is Disconnected with no update work executing, the
\* hub has no child device; the child node templates never change
C7_DisconnectedNoChildren ==
    [][/\ (wk.pc = "report" /\ wk.state = "DISCONNECTED")' => HubChildren' = {}
       /\ (hubState = "DISCONNECTED" /\ running = 0)' => HubChildren' = {}
       /\ hubNodes' = hubNodes]_vars

\* the hub was disconnected by the last update work
C7_Witness ==
    /\ hubState = "DISCONNECTED" /\ running = 0
    /\ wk.last = "disconnected"
    /\ physConn
    /\ HubChildren = {}

\* C8: the update work is never queued twice and never executes twice at a
\* time
C8_SingleWork == pending <= 1 /\ running <= 1

\* a scheduling found the work pending while an earlier instance executes
C8_Witness ==
    /\ schedRet = "pending"
    /\ pending = 1 /\ running = 1

\* C9: the hub teardown unregisters the notifier, then cancels and awaits the
\* update work, then removes the children: no update work is pending or
\* executing from the start of the child removal on, and a removed hub has no
\* child device
C9_TeardownOrder ==
    /\ hubpc \in {"rm_cancel", "rm_wait", "rm_clients", "rm_del"} => ~notifReg
    /\ hubpc \in {"rm_wait", "rm_clients", "rm_del"} => pending = 0
    /\ hubpc \in {"rm_clients", "rm_del"} => (running = 0 /\ wk.pc = "idle")
    /\ hubpc \in {"rm_del", "absent", "adding", "registered", "inert"}
       => (HubChildren = {} /\ pending = 0 /\ running = 0)

\* a hub that had been populated is being deleted
C9_Witness ==
    /\ hubpc = "rm_del"
    /\ wk.last = "connected_ok"
    /\ HubChildren = {}

\* C10: after a childless hub got a connect notification, no child device
\* exists until the settle delay has elapsed
C10_NoChildBeforeDelay ==
    connectAge \in 0..(SSAM_KIP_UPDATE_CONNECT_DELAY - 1) => HubChildren = {}

\* steps of the model as the handlers of the source make them
NotifStep == notifReg /\ notifReg' /\ events # <<>> /\ events' = Tail(events)
ResumeStep ==
    /\ hubpc = "bound" /\ hubpc' = "bound" /\ events' = events
    /\ wk' = wk /\ running' = running
    /\ <<pending, timer, schedRet>>' # <<pending, timer, schedRet>>
    /\ schedRet' \in {"queued", "pending"}
WorkStep == running > 0 /\ wk.pc # "idle" /\ wk' # wk

\* C11: the hub's state field and its children are modified only by a step of
\* the update work function (the children also by the hub's removal); a step of
\* ssam_kip_hub_notif or of ssam_kip_hub_resume only schedules the work and
\* leaves the hub state and every device as they were.
C11_OnlyWorkModifiesHub ==
    [][ /\ (hubState # "none" /\ hubState' # "none" /\ hubState' # hubState)
            => WorkStep
        /\ ([d \in Templates |-> sdev[d]]' # [d \in Templates |-> sdev[d]])
            => (WorkStep \/ hubpc = "rm_clients")
        /\ (NotifStep \/ ResumeStep)
            => (hubState' = hubState /\ sdev' = sdev /\ wk' = wk) ]_vars
C11_Witness ==
    /\ schedRet = "queued" /\ pending = 1 /\ wk.pc = "idle"
    /\ hubState = "CONNECTED" /\ HubChildren # {}

\* C12: while an event of the hub's target category is dispatched with the
\* hub's notifier registered, the hub's notifier is the first notifier of that
\* category that is called
C12_HubDispatchedFirst ==
    (nf.event = "KIP" /\ NfRegistered("kip_hub") /\ nf.log # <<>>)
    => nf.log[1] = "kip_hub"

ceil_div(L, C) == (L + C - 1) \div C

\* C13 as stated: a transfer that returns success without the remote having
\* set the end flag early has issued exactly ceil(L/C) read requests, and the
\* buffer handed out is the concatenation of the received chunks
C13_RequestsCeil ==
    (xf.pc = "ret" /\ xf.status = 0 /\ ~xf.early)
    => /\ xf.nreq = ceil_div(xf.len, xf.cap)
       /\ xf.desc.data = xf.concat

\* C13 as the code has it: when, besides, every response carried, at the
\* offset asked for, all the bytes that were left, up to the chunk size, the
\* transfer has issued exactly
\* ceil(L/C) read requests and hands out a buffer of L bytes that is the
\* concatenation of the received chunks, which is the remote's descriptor
C13_FullChunks ==
    (xf.pc = "ret" /\ xf.status = 0 /\ ~xf.early /\ xf.full)
    => /\ xf.nreq = ceil_div(xf.len, xf.cap)
       /\ xf.desc.stored /\ ~xf.desc.null
       /\ xf.size = xf.L /\ Len(xf.desc.data) = xf.L
       /\ xf.desc.data = xf.concat
       /\ \A i \in 1..xf.L : xf.desc.data[i] = desc_byte(i - 1)
C13_Witness ==
    /\ xf.pc = "ret" /\ xf.status = 0
    /\ xf.L = ExampleLen /\ xf.cap = VHF_PLD_LEN
    /\ xf.nreq = 3 /\ xf.last = ExampleLen - 2 * VHF_PLD_LEN

\* a kernel thread that can take a step takes one
SpecXfFair == InitTransfer /\ [][NextXf]_vars /\ WF_vars(NextXf)

\* C14: the transfer terminates whatever the remote answers
C14_Terminates == <>(xf.pc \in {"end", "oops"})

\* C15: a buffer handed to the caller with success has every byte of [0, L)
\* written from a received chunk, and the transfer was not ended by an end
\* flag in front of L
C15_CompleteOnSuccess ==
    (xf.pc \in {"ret", "end"} /\ xf.status = 0 /\ xf.desc.stored)
    => /\ xf.written = 1..xf.len
       /\ ~xf.early

\* C16: once a request has failed, the transfer returns the error of that
\* request, issues no further request, has released the buffer it allocated
\* and has stored nothing to the caller's *desc and *size
C16_FailureReleases ==
    [][ /\ xf'.failed # 0
           => /\ xf'.pc \in {"ret", "end"}
              /\ xf'.status = xf'.failed
              /\ xf'.alloc => xf'.freed
              /\ ~xf'.desc.stored /\ xf'.size = -1
        /\ xf.failed # 0 => xf'.nreq = xf.nreq ]_vars
C16_Witness ==
    /\ xf.pc = "end" /\ xf.failed = -EIO /\ xf.ret = -EIO
    /\ xf.nreq >= 2 /\ xf.concat # <<>> /\ xf.freed

\* C17: ssam_device_id_match returns the first entry, in table order, whose
\* type equals the type looked up, no entry when no entry has that type, and
\* never an entry with the all-zero type, also when the all-zero type is
\* looked up
C17_FirstMatch ==
    mobs.called =>
       LET t == mobs.table
           g == mobs.guid
           r == mobs.ret
           n == Len(t) - 1
       IN /\ r \in 0..n
          /\ r # 0 => /\ t[r] = g /\ t[r] # guid_null
                      /\ \A j \in 1..(r - 1) : t[j] # g
          /\ r = 0 => \A j \in 1..n : t[j] # g
C17_Witness ==
    /\ mobs.called /\ mobs.ret = 1
    /\ Len(mobs.table) >= 3 /\ mobs.table[2] = mobs.guid

\* the registered driver's table has an entry of the device's type
Matched(sdrv, dev) ==
    /\ sdrv.registered
    /\ \E i \in 1..(Len(sdrv.match_table) - 1) : sdrv.match_table[i] = dev.type

\* C18: with a driver registered whose table contains the type, the add of a
\* device of that type under a started controller succeeds, the driver's probe
\* is called exactly once for the device, and it is not called again while the
\* device stays registered and bound
C18_ProbedOnce ==
    [][ /\ (/\ benum.pc = "add" /\ benum' # benum /\ bobs'.called
            /\ ctrlState = "STARTED" /\ ~bobs'.dup)
           => (bobs'.ret = 0 /\ bdev'[benum.idx].st = "registered")
        /\ \A d \in BusDevs :
              /\ (bdev'[d].st = "registered" /\ bdev'[d].eager /\ Matched(bdrv', bdev'[d]))
                 => \/ bdev'[d].need = 1 /\ bdev'[d].probes = 0
                    \/ bdev'[d].need = 0 /\ bdev'[d].probes = 1
              /\ (bdev[d].drv = "bound" /\ bdev'[d].drv = "bound")
                 => bdev'[d].probes = bdev[d].probes ]_vars
C18_Witness ==
    \E d \in BusDevs :
       /\ bdev[d].st = "registered" /\ bdev[d].type = 1 /\ bdev[d].eager
       /\ bdev[d].drv = "bound" /\ bdev[d].probes = 1 /\ bdev[d].need = 0

C20_UniqueTypes ==
    /\ \A d, e \in BusDevs :
          (d # e /\ bdev[d].st = "registered" /\ bdev[e].st = "registered")
          => bdev[d].type # bdev[e].type
    /\ (bobs.called /\ bobs.dup) => (bobs.ret = -EEXIST /\ bobs.kept)
C20_Witness ==
    /\ bobs.called /\ bobs.dup /\ bobs.ret = -EEXIST /\ bobs.kept
    /\ benum.pc = "err"

\* C21: a feature-get (sid_vhf_hid_raw_request with a feature report and a
\* get request) for a report number in {6, 7, 8, 9, 0x0b} returns 0 and
\* issues no request; for every other report number it issues exactly one
C21_FeatureGetRouting ==
    (/\ vhf.rq.called
     /\ vhf.rq.rtype = "HID_FEATURE_REPORT"
     /\ vhf.rq.reqtype = "HID_REQ_GET_REPORT")
    => IF vhf.rq.reportnum \in {6, 7, 8, 9, 11}
       THEN vhf.rq.ret = 0 /\ Len(vhf.rq.sent) = 0
       ELSE Len(vhf.rq.sent) = 1

\* a feature-get of report 0x0b has returned at once
C21_Witness ==
    /\ vhf.rq.called
    /\ vhf.rq.rtype = "HID_FEATURE_REPORT"
    /\ vhf.rq.reqtype = "HID_REQ_GET_REPORT"
    /\ vhf.rq.reportnum = 11
    /\ vhf.rq.sent = <<>>

\* the three comparisons the filter is described by
C22_Filter3 ==
    /\ vhf.eobs.event.target_category = SSAM_SSH_TC_HID
    /\ vhf.eobs.event.channel = 2
    /\ vhf.eobs.event.instance_id = vhf.instance

\* the handler has returned for the event it was called with
C22_Returned == vhf.eobs.called /\ vhf.epc = "idle"

\* C22 as stated: an event passing the filter on target category, channel
\* and instance id is forwarded only while the consumer is open, and is
\* dropped and reported handled when it is not open; an event failing that
\* filter is reported unhandled and is not forwarded
C22_ForwardOnlyWhenOpen ==
    C22_Returned =>
       IF C22_Filter3
       THEN /\ vhf.eobs.forwarded => vhf.eobs.started_at_report
            /\ ~vhf.eobs.started => ~vhf.eobs.forwarded /\ vhf.eobs.handled
       ELSE ~vhf.eobs.handled /\ ~vhf.eobs.forwarded

\* C22 amended: the filter has a fourth comparison, the command id must be
\* 0x00, 0x03 or 0x04; an event passing the four comparisons is forwarded
\* and reported handled if the started bit was set when the handler tested
\* it, and dropped and reported handled if it was clear; an event failing
\* one of the four comparisons is reported unhandled and is not forwarded
C22_ForwardWhenStartedAtTest ==
    C22_Returned =>
       IF C22_Filter3 /\ vhf.eobs.event.command_id \in {0, 3, 4}
       THEN /\ vhf.eobs.handled
            /\ vhf.eobs.forwarded <=> vhf.eobs.started
       ELSE ~vhf.eobs.handled /\ ~vhf.eobs.forwarded

\* an input event of command id 0x03 arrived while the consumer was not
\* open: it was dropped and reported handled
C22_Witness ==
    /\ C22_Returned
    /\ C22_Filter3 /\ vhf.eobs.event.command_id = 3
    /\ ~vhf.eobs.started /\ vhf.eobs.handled /\ ~vhf.eobs.forwarded
    /\ vhf.state = {}

\* a name of the scheme ssam:dd:cc:tt:ii:ff: the prefix and five fields of
\* two hex digits, separated by colons, and nothing else
WellFormed(str) ==
    /\ Len(str) = 19
    /\ SubSeq(str, 1, 5) = <<"s","s","a","m",":">>
    /\ \A i \in {8, 11, 14, 17} : str[i] = ":"
    /\ \A i \in {6, 7, 9, 10, 12, 13, 15, 16, 18, 19} : isxdigit(str[i])

\* the value of the two hex digits at position i
FieldValue(str, i) == 16 * hex_to_bin(str[i]) + hex_to_bin(str[i + 1])

\* C23: for a well-formed name, ssam_uid_from_string succeeds with the five
\* field values and formatting that UID and parsing it again gives the same
\* UID; for every other string it fails and leaves the output UID unchanged
C23_ParseRoundTrip ==
    up.pc = "done" =>
       IF WellFormed(up.str)
       THEN /\ up.status = 0
            /\ up.uid = [domain |-> FieldValue(up.str, 6),
                         category |-> FieldValue(up.str, 9),
                         target |-> FieldValue(up.str, 12),
                         instance |-> FieldValue(up.str, 15),
                         function |-> FieldValue(up.str, 18)]
            /\ WellFormed(ssam_uid_to_string(up.uid))
            /\ ssam_uid_from_string(ssam_uid_to_string(up.uid), NoUid).uid = up.uid
       ELSE up.status = -EINVAL /\ up.uid = up.before

\* the step of the enumeration for a child node whose name does not parse
C24_SkipStep ==
    /\ wk.pc = "register" /\ wk' # wk
    /\ ssam_uid_from_string(hubNodes[wk.idx], NoUid).status # 0

C25_OffsetMonotone ==
    [][ /\ xf'.offset >= xf.offset
        /\ (xf.pc = "loop" /\ xf' # xf)
              => (xf'.pc = "rqst" <=> (xf.end = 0 /\ xf.offset < xf.len))
        /\ (xf.pc = "rqst" /\ xf' # xf)
              => (xf.end = 0 /\ xf.offset < xf.len) ]_vars

\* C26: whatever the remote answers, every copy of chunk bytes lands inside
\* the transfer buffer: offset + length of the response is at most L
C26_CopyWithinBuffer ==
    /\ ~xf.overflow
    /\ xf.pc = "oops" => xf.null

\* C28: after an enumeration on entry to Connected has failed and has been
\* rolled back, the hub is Connected and has no child device until an update
\* work moves it to Disconnected, whatever update works run in between, for
\* as long as the hub exists
C28_StuckAfterRollback ==
    (wk.rolled /\ hubState # "none") => hubState = "CONNECTED" /\ HubChildren = {}

\* an update work that read "connected" has returned after the rollback of
\* an earlier one
C28_Witness ==
    /\ wk.rolled /\ wk.pc = "idle" /\ wk.last = "same"
    /\ physConn /\ hubState = "CONNECTED" /\ HubChildren = {}

\* the step of the update work on which the query of the connection state
\* has failed: the work function returns from the query
C29_QueryFailedStep == wk.pc = "query" /\ wk'.pc = "idle"

\* C29: an update work whose query of the connection state fails returns
\* without changing the hub state, without adding or removing a device and
\* without queueing the update work again
C29_QueryFailureNoop ==
    [][C29_QueryFailedStep =>
         /\ wk'.last = "qfail" /\ running' = running - 1
         /\ hubState' = hubState
         /\ sdev' = sdev /\ ctrlRefs' = ctrlRefs
         /\ pending' = pending /\ timer' = timer]_vars

\* the query failed on a populated, connected hub and nothing is queued
C29_Witness ==
    /\ wk.pc = "idle" /\ wk.last = "qfail" /\ running = 0
    /\ hubState = "CONNECTED" /\ HubChildren # {}
    /\ pending = 0

\* the hub state that stands for the actual connection state
ActualState == IF physConn THEN "CONNECTED" ELSE "DISCONNECTED"

\* C27: on a bound hub, when the connection state eventually stops changing
\* (it stays connected or stays disconnected) and no query of the connection
\* state fails, the hub state eventually equals the actual connection state
\* and stays equal to it
C27_EventuallyConsistent ==
    ((<>[]physConn \/ <>[]~physConn) /\ [](wk.last # "qfail"))
    => <>[](hubState = ActualState)

\* the hub has settled on the actual state: the cover is detached, the last
\* update work found it so, and nothing is queued or in flight
C27_Witness ==
    /\ ~physConn /\ hubState = "DISCONNECTED"
    /\ wk.pc = "idle" /\ wk.last = "disconnected"
    /\ pending = 0 /\ events = <<>>

====
